---- MODULE Spec2Model ----
(***************************************************************************)
(* Model of the stock-alerts backend (src/backend/main.py): the persisted  *)
(* run_status row, the bulk evaluation routine check_alerts running on     *)
(* scheduler / request threads, the status-reading request handlers with   *)
(* their timeout auto-recovery, the manual reset and the startup recovery, *)
(* the alert evaluator _evaluate_and_notify with its suppression state;    *)
(* and of the fallback composite of src/quote_sources/__init__.py.         *)
(*                                                                         *)
(* Grain: a request handler is one step (its reads and writes of the store *)
(* are taken together); a check_alerts execution is a sequence of steps,   *)
(* one per committed write of run_status and one per iteration of its      *)
(* loop, interleaved with the handlers and with other executions; a call   *)
(* of the evaluator is a sequence of steps, per rule one up to the webhook *)
(* POST and one for the POST and the stamp that follows it.                *)
(***************************************************************************)
EXTENDS Integers, Sequences, FiniteSets, TLC

\* ------------------------------------------------------------------ bounds
MaxTime == 3          \* the clock runs over 0..MaxTime
MaxWorkers == 2       \* threads that may execute check_alerts at once (Spec)
NumSymbols == 1       \* symbols of the store (Spec)
BatchSymbols == 3     \* symbols of the store (SpecBatch)
MaxDay == 2           \* the calendar runs over the days 0..MaxDay
MaxSends == 3         \* calls of _notify_discord kept in the history
MaxPrice == 3         \* prices of a payload run over 1..MaxPrice
MaxAlerts == 5        \* ids the alerts table hands out

\* --------------------------------------------------------------- constants
RUN_TIMEOUT_SECONDS == 2     \* env RUN_TIMEOUT_SECONDS (scaled to the clock)

Null == -1                   \* SQL NULL / Python None in an integer column
NoneStr == "None"            \* SQL NULL / Python None in a text column

VARIABLES
    rs,      \* the single run_status row (id = 1)
    now,     \* int(time.time())
    wk,      \* per thread slot: the local state of one check_alerts execution
    group,   \* symbols.group_id per symbol id: "watch" | "archived"
    snap,    \* symbol_state row per symbol id (NoSnap when there is none)
    alerts,       \* the alerts table: the rule with id i is alerts[i]
    alert_state,  \* alert_state row per rule id (NoAlertState when there is none)
    ev,      \* per thread: the local state of one _evaluate_and_notify call
    today,   \* datetime.now(ZoneInfo(MARKET_TZ)).date(), as a day number
    sends,   \* history: the calls of _notify_discord, in order
    env,     \* the deployment: what the provider, the webhook and the
             \* database may do
    fb,      \* the local state of one call of the fallback composite
    pv       \* the payload returned by the latest get_full of a provider

alertVars == <<alerts, alert_state, ev, today, sends, env>>

vars == <<rs, now, wk, group, snap, alertVars, fb, pv>>

\* ------------------------------------------------------------ run status

NoRunsMsg == <<"No runs yet">>
UpdatingMsg == <<"Updating quotes...">>
NoSymbolsMsg == <<"No symbols in watchlist">>
AutoRecoveredMsg == <<"Auto-recovered: run exceeded timeout">>
RestartedMsg == <<"Previous run did not finish (server restarted).">>
ManualResetMsg == <<"Manually reset by user">>
NoMsg == <<>>
UpdatedMsg(ok, err, notified) == <<"Updated", ok, err, notified>>

SeedRunStatus ==
    [phase |-> "idle", started_epoch |-> Null, finished_epoch |-> Null,
     status_code |-> NoneStr, message |-> NoRunsMsg,
     ok_count |-> 0, err_count |-> 0]

\* An argument that is None leaves its column as it is.
SetRunStatus(r, phase, started, finished, status_code, message, ok_count, err_count) ==
    [phase |-> phase,
     started_epoch |-> IF started # Null THEN started ELSE r.started_epoch,
     finished_epoch |-> IF finished # Null THEN finished ELSE r.finished_epoch,
     status_code |-> IF status_code # NoneStr THEN status_code ELSE r.status_code,
     message |-> IF message # NoMsg THEN message ELSE r.message,
     ok_count |-> IF ok_count # Null THEN ok_count ELSE r.ok_count,
     err_count |-> IF err_count # Null THEN err_count ELSE r.err_count]

ForceFinishRunStatus(r, t, status_code, message) ==
    SetRunStatus(r, "finished", Null, t, status_code, message, Null, Null)

\* Mutant: the row is stamped with the startup recovery's status code.
AutoRecoverRunStatus_WrongCode(r, t) ==
    IF /\ r.phase = "running"
       /\ r.started_epoch # Null
       /\ t - r.started_epoch >= RUN_TIMEOUT_SECONDS
    THEN [r EXCEPT !.phase = "finished",
                   !.finished_epoch = t,
                   !.status_code = "interrupted",
                   !.message = AutoRecoveredMsg]
    ELSE r

\* Mutant: the phase is not looked at, only the age of started_epoch.
AutoRecoverRunStatus_NoPhaseCheck(r, t) ==
    IF /\ r.started_epoch # Null
       /\ t - r.started_epoch >= RUN_TIMEOUT_SECONDS
    THEN [r EXCEPT !.phase = "finished",
                   !.finished_epoch = t,
                   !.status_code = "interrupted_timeout",
                   !.message = AutoRecoveredMsg]
    ELSE r

AutoRecoverRunStatus(r, t) ==
    IF /\ r.phase = "running"
       /\ r.started_epoch # Null
       /\ t - r.started_epoch >= RUN_TIMEOUT_SECONDS
    THEN [r EXCEPT !.phase = "finished",
                   !.finished_epoch = t,
                   !.status_code = "interrupted_timeout",
                   !.message = AutoRecoveredMsg]
    ELSE r

\* Mutant: the startup recovery spares a run younger than the timeout.
RecoverStuckRunStatus_OnlyStale(r, t) ==
    IF /\ r.phase = "running"
       /\ r.started_epoch # Null
       /\ t - r.started_epoch >= RUN_TIMEOUT_SECONDS
    THEN [r EXCEPT !.phase = "finished",
                   !.finished_epoch = t,
                   !.status_code = "interrupted",
                   !.message = RestartedMsg]
    ELSE r

RecoverStuckRunStatus(r, t) ==
    IF r.phase = "running"
    THEN [r EXCEPT !.phase = "finished",
                   !.finished_epoch = t,
                   !.status_code = "interrupted",
                   !.message = RestartedMsg]
    ELSE r

\* Mutant: the guard compares with a phase that is never written.
IsRunAlreadyRunning_WrongPhase(r) == r.phase = "started"

IsRunAlreadyRunning(r) == r.phase = "running"

\* ------------------------------------------------------ provider, snapshot

\* What one PROVIDER.get_full call does: a payload without error, a payload
\* with an error kind, or an exception.
ProviderErrors == {"rate_limited", "invalid_symbol"}
Outcomes == {"ok", "raise"} \cup ProviderErrors

\* err = (full or {}).get("error"), with the except branch's payload.
ErrOf(out) ==
    IF out = "raise" THEN "network_error"
    ELSE IF out = "ok" THEN NoneStr
    ELSE out

None == <<>>                 \* a payload field that is None or missing
Some(x) == <<x>>             \* a payload field that holds x
Val(o) == o[1]

\* No symbol_state row: the quote columns of the joined row are NULL.
NoSnap ==
    [last_check_epoch |-> Null, note |-> NoneStr, data |-> FALSE,
     price |-> None]

\* v(key) of upsert_symbol_state_full: None without a payload.
PayloadField(data, key) == IF data = None THEN None ELSE Val(data)[key]

\* Mutant: a failed fetch keeps the quote columns of the row (COALESCE).
UpsertSymbolStateFull_KeepsOnFailure(sn, s, t, note, data) ==
    [sn EXCEPT ![s] =
        [last_check_epoch |-> t, note |-> note, data |-> data # None,
         price |-> IF data = None THEN sn[s].price
                   ELSE PayloadField(data, "price")]]

\* upsert_symbol_state_full(symbol_id, window_ok, note, data): every column
\* of the row is replaced (ON CONFLICT DO UPDATE SET col = excluded.col). The
\* payload is None or Some(quote); column data tells whether one was given.
\* The quote columns are all written as v(key) by the one statement; the row
\* of the model keeps the column price of them.
UpsertSymbolStateFull(sn, s, t, note, data) ==
    [sn EXCEPT ![s] =
        [last_check_epoch |-> t, note |-> note, data |-> data # None,
         price |-> PayloadField(data, "price")]]

\* The snapshot one fetch outcome leaves; q is the payload of an outcome
\* without error.
SnapAfterFetch(sn, s, t, out, q) ==
    IF ErrOf(out) # NoneStr
    THEN UpsertSymbolStateFull(sn, s, t, ErrOf(out), None)
    ELSE UpsertSymbolStateFull(sn, s, t, "Price check ok", Some(q))

\* ---------------------------------------------------------- alert evaluator

COOLDOWN_SECONDS == 2        \* COOLDOWN_MINUTES * 60 (scaled to the clock)
EARNINGS_NOTIFY_DEFAULT_DAYS == 1

Abs(x) == IF x < 0 THEN -x ELSE x

CooldownTypes == {"above", "below", "pct_drop", "pct_jump"}

\* A rule without an alert_state row; a date is a day number, and so is the
\* key under which an earnings reminder was last sent.
NoAlertState == [last_sent_epoch |-> Null, last_sent_key |-> Null]

\* The thread of a request handler (the threads of check_alerts are 1, 2, ...)
Req == 0

\* The payload of a fetch that failed holds no quote field.
NoQuote == [price |-> None, open |-> None, next_earning_day |-> None]

IdleEval ==
    [pc |-> "idle", rules |-> <<>>, idx |-> 0, quote |-> NoQuote,
     now_epoch |-> 0, sent |-> 0, raised |-> {}, resp |-> "none"]

RECURSIVE Ascending(_)
Ascending(S) ==
    IF S = {} THEN <<>>
    ELSE LET first == CHOOSE a \in S : \A b \in S : a <= b
         IN <<first>> \o Ascending(S \ {first})

\* SELECT id, type, value FROM alerts WHERE symbol_id=?
AlertIdsOf(s) ==
    Ascending({i \in DOMAIN alerts :
                  alerts[i].symbol_id = s /\ alerts[i].type # "deleted"})

\* _cooldown_ok
CooldownOk(last_sent_epoch, now_epoch) ==
    IF last_sent_epoch = Null THEN TRUE
    ELSE now_epoch - last_sent_epoch >= COOLDOWN_SECONDS

\* pct_from_open = (price - open_) / open_ * 100.0, for the payloads of the
\* specifications below, whose open divides 100 (the quotient is exact).
PctFromOpen(price, open) ==
    IF open # None /\ open # Some(0) /\ price # None
    THEN Some(((Val(price) - Val(open)) * 100) \div Val(open))
    ELSE None

\* _days_until_earnings: the days from the local date to the earnings date.
DaysUntilEarnings(next_earn, day) ==
    IF next_earn = None THEN None ELSE Some(Val(next_earn) - day)

\* Mutant: the comparisons are strict and the sign of a percent value counts.
Trigger_Strict(a_type, a_val, price, pct_from_open) ==
    \/ a_type = "above" /\ price # None /\ Val(price) > a_val
    \/ a_type = "below" /\ price # None /\ Val(price) < a_val
    \/ a_type = "pct_drop" /\ pct_from_open # None /\ Val(pct_from_open) <= -a_val
    \/ a_type = "pct_jump" /\ pct_from_open # None /\ Val(pct_from_open) >= a_val

\* The if / elif chain that sets trigger.
Trigger(a_type, a_val, price, pct_from_open) ==
    \/ a_type = "above" /\ price # None /\ Val(price) >= a_val
    \/ a_type = "below" /\ price # None /\ Val(price) <= a_val
    \/ a_type = "pct_drop" /\ pct_from_open # None
                           /\ Val(pct_from_open) <= -Abs(a_val)
    \/ a_type = "pct_jump" /\ pct_from_open # None
                           /\ Val(pct_from_open) >= Abs(a_val)

\* Mutant: an earnings reminder needs a new key and a passed cooldown.
EarningsDue_AlsoCooldown(a_val, next_earn, day, st, now_epoch) ==
    LET days_left == DaysUntilEarnings(next_earn, day)
    IN /\ days_left # None
       /\ Val(days_left) = a_val
       /\ st.last_sent_key # Val(next_earn)
       /\ CooldownOk(st.last_sent_epoch, now_epoch)

\* Mutant: an earnings reminder is suppressed by the cooldown, not by its key.
EarningsDue_ByCooldown(a_val, next_earn, day, st, now_epoch) ==
    LET days_left == DaysUntilEarnings(next_earn, day)
    IN /\ days_left # None
       /\ Val(days_left) = a_val
       /\ CooldownOk(st.last_sent_epoch, now_epoch)

\* The earnings_days branch up to the call of _notify_discord.
EarningsDue(a_val, next_earn, day, st, now_epoch) ==
    LET days_left == DaysUntilEarnings(next_earn, day)
    IN /\ days_left # None
       /\ Val(days_left) = a_val
       /\ st.last_sent_key # Val(next_earn)

\* Whether the evaluation of one rule reaches _notify_discord.
ShouldNotify(rule, quote, st, now_epoch, day) ==
    IF rule.type = "earnings_days"
    THEN EarningsDue(rule.value, quote.next_earning_day, day, st, now_epoch)
    ELSE /\ CooldownOk(st.last_sent_epoch, now_epoch)
         /\ Trigger(rule.type, rule.value, quote.price,
                    PctFromOpen(quote.price, quote.open))

\* Mutant: every response of the webhook counts as a delivery.
NotifyDiscord_AnyStatus(webhook, resp) == webhook /\ resp # "fault"

\* _notify_discord: whether the message was delivered.
NotifyDiscord(webhook, resp) == webhook /\ resp = "2xx"

DiscordResponses == {"2xx", "non2xx", "fault"}

\* What the POST does: nothing is posted without a webhook.
PostOutcomes(webhook) == IF webhook THEN DiscordResponses ELSE {"none"}

\* Mutant: the rule is stamped whether or not the message was delivered.
StampAfter_Always(st, rule, a, epoch, next_earn, delivered) ==
    IF rule.type = "earnings_days"
    THEN [st EXCEPT ![a] = [last_sent_epoch |-> epoch,
                            last_sent_key |-> Val(next_earn)]]
    ELSE [st EXCEPT ![a].last_sent_epoch = epoch]

\* Mutant: every rule is stamped through set_last_sent with the date as key.
StampAfter_KeyAlways(st, rule, a, epoch, next_earn, delivered) ==
    IF ~delivered THEN st
    ELSE [st EXCEPT ![a] = [last_sent_epoch |-> epoch,
                            last_sent_key |-> IF next_earn = None THEN Null
                                              ELSE Val(next_earn)]]

\* set_last_sent(alert_id, now_epoch, key=next_earn) for an earnings rule,
\* set_last_sent_epoch(alert_id, now_epoch) for the others, after a delivery.
StampAfter(st, rule, a, epoch, next_earn, delivered) ==
    IF ~delivered THEN st
    ELSE IF rule.type = "earnings_days"
    THEN [st EXCEPT ![a] = [last_sent_epoch |-> epoch,
                            last_sent_key |-> Val(next_earn)]]
    ELSE [st EXCEPT ![a].last_sent_epoch = epoch]

\* The call _evaluate_and_notify(symbol_id, ticker, quote, now_epoch) of a
\* symbol that has rules, before its loop.
BeginEvaluate(s, quote, t) ==
    [IdleEval EXCEPT !.pc = "rule", !.rules = AlertIdsOf(s),
                     !.quote = quote, !.now_epoch = t]

\* The loop goes on to the next rule, or the call returns.
NextRule(c) ==
    [c EXCEPT !.idx = @ + 1,
              !.pc = IF c.idx + 1 = Len(c.rules) THEN "return" ELSE "rule"]

\* Mutant: the try block is around the loop, an exception ends the loop.
RuleRaised_EndsLoop(c, a) ==
    [c EXCEPT !.idx = @ + 1, !.pc = "return", !.raised = @ \cup {a}]

\* The except branch of the loop body: logged, the loop goes on.
RuleRaised(c, a) == [NextRule(c) EXCEPT !.raised = @ \cup {a}]

Evaluators == DOMAIN ev
CurrentRule(e) == ev[e].rules[ev[e].idx + 1]

\* One rule, up to the call of _notify_discord: the suppression state is
\* read and the condition decided; an exception ends this rule only.
EvalRule(e) ==
    /\ ev[e].pc = "rule"
    /\ LET a == CurrentRule(e)
       IN \E fault \in env.faults :
            ev' = [ev EXCEPT ![e] =
                     IF fault THEN RuleRaised(@, a)
                     ELSE IF ShouldNotify(alerts[a], @.quote, alert_state[a],
                                          @.now_epoch, today)
                     THEN [@ EXCEPT !.pc = "send"]
                     ELSE NextRule(@)]
    /\ UNCHANGED <<rs, now, wk, group, snap, alerts, alert_state, today, sends, env, fb, pv>>

\* _notify_discord(msg) and, if it returned True, the stamp and sent += 1.
EvalSend(e) ==
    /\ ev[e].pc = "send"
    /\ Len(sends) < MaxSends
    /\ LET a == CurrentRule(e)
           c == ev[e]
       IN \E resp \in PostOutcomes(env.webhook) :
            LET delivered == NotifyDiscord(env.webhook, resp)
            IN /\ sends' = Append(sends,
                     [alert_id |-> a, at |-> c.now_epoch, by |-> e,
                      key |-> IF alerts[a].type = "earnings_days"
                              THEN Val(c.quote.next_earning_day) ELSE Null,
                      delivered |-> delivered])
               /\ alert_state' = StampAfter(alert_state, alerts[a], a, c.now_epoch,
                                            c.quote.next_earning_day, delivered)
               /\ ev' = [ev EXCEPT ![e] =
                           [NextRule(c) EXCEPT
                               !.sent = IF delivered THEN @ + 1 ELSE @,
                               !.resp = resp]]
    /\ UNCHANGED <<rs, now, wk, group, snap, alerts, today, env, fb, pv>>

\* return sent: to the loop of check_alerts, which adds it to total_notified,
\* or to api_update_symbol, which answers with it.
EvalReturn(e) ==
    /\ ev[e].pc = "return"
    /\ ev' = [ev EXCEPT ![e] = IdleEval]
    /\ wk' = IF e \in DOMAIN wk
             THEN [wk EXCEPT ![e].total_notified = @ + ev[e].sent,
                             ![e].pc = IF wk[e].idx = Len(wk[e].syms)
                                       THEN "final" ELSE "loop"]
             ELSE wk
    /\ UNCHANGED <<rs, now, group, snap, alerts, alert_state, today, sends, env, fb, pv>>

EvalStep(e) ==
    \/ EvalRule(e)
    \/ EvalSend(e)
    \/ EvalReturn(e)

\* ------------------------------------------------------- fallback composite

\* The fields of a payload that the composite reads, and its source.
Payload(price, prev_close, error, source) ==
    [price |-> price, prev_close |-> prev_close, error |-> error, source |-> source]

\* The payload that stands for a provider whose get_full raised.
NetworkErrorPayload(source) == Payload(None, None, "network_error", source)

\* What a provider's get_full may return: price and prev_close known or not,
\* error None, empty or an error kind.
PayloadsOf(source) ==
    {Payload(p, c, e, source) :
        p \in {None, Some(1)}, c \in {None, Some(1)},
        e \in {NoneStr, "", "rate_limited", "invalid_symbol"}}

\* not err
NoError(d) == d.error \in {NoneStr, ""}

\* Mutant: a payload has data only if it has a price.
HasData_PriceOnly(d) == d.price # None

\* primary_has_data / secondary_has_data
HasData(d) == d.price # None \/ d.prev_close # None

\* Mutant: the error field is compared before the data.
FallbackResult_ErrorFirst(d, d2) ==
    IF NoError(d) /\ ~NoError(d2) THEN d
    ELSE IF NoError(d2) /\ ~NoError(d) THEN d2
    ELSE IF HasData(d) /\ ~HasData(d2) THEN d
    ELSE d2

\* The return statements after the secondary's call.
FallbackResult(d, d2) ==
    IF HasData(d2) /\ ~HasData(d) THEN d2
    ELSE IF HasData(d) /\ ~HasData(d2) THEN d
    ELSE IF NoError(d) /\ ~NoError(d2) THEN d
    ELSE d2

\* The return statements of get_price_prev_close after the secondary's call.
PricePrevCloseResult(d, d2) ==
    IF HasData(d2) \/ (NoError(d) /\ ~NoError(d2)) THEN d2 ELSE d

IdleFallback ==
    [pc |-> "idle", method |-> "none", d |-> NetworkErrorPayload("none"),
     d2 |-> NetworkErrorPayload("none"), secondary_called |-> FALSE,
     ret |-> NetworkErrorPayload("none")]

\* FallbackQuoteProvider.get_full up to the secondary's call: the primary
\* returns a payload or raises; a payload without error and with data is
\* returned at once.
FallbackPrimary ==
    /\ fb.pc = "idle"
    /\ \E raised \in BOOLEAN, p \in PayloadsOf("primary") :
         LET d == IF raised THEN NetworkErrorPayload("primary") ELSE p
         IN fb' = IF NoError(d) /\ HasData(d)
                  THEN [fb EXCEPT !.pc = "done", !.method = "get_full",
                                  !.d = d, !.ret = d]
                  ELSE [fb EXCEPT !.pc = "secondary", !.method = "get_full",
                                  !.d = d]
    /\ UNCHANGED <<rs, now, wk, group, snap, alertVars, pv>>

\* Mutant: the secondary's call is not guarded, its exception leaves get_full.
FallbackSecondary_Unguarded ==
    /\ fb.pc = "secondary"
    /\ fb.method = "get_full"
    /\ \E raised \in BOOLEAN, p \in PayloadsOf("secondary") :
         fb' = IF raised
               THEN [fb EXCEPT !.pc = "raised", !.secondary_called = TRUE]
               ELSE [fb EXCEPT !.pc = "done", !.d2 = p, !.secondary_called = TRUE,
                               !.ret = FallbackResult(fb.d, p)]
    /\ UNCHANGED <<rs, now, wk, group, snap, alertVars, pv>>

\* The secondary's call and the choice between the two payloads.
FallbackSecondary ==
    /\ fb.pc = "secondary"
    /\ fb.method = "get_full"
    /\ \E raised \in BOOLEAN, p \in PayloadsOf("secondary") :
         LET d2 == IF raised THEN NetworkErrorPayload("secondary") ELSE p
         IN fb' = [fb EXCEPT !.pc = "done", !.d2 = d2, !.secondary_called = TRUE,
                             !.ret = FallbackResult(fb.d, d2)]
    /\ UNCHANGED <<rs, now, wk, group, snap, alertVars, pv>>

\* FallbackQuoteProvider.get_price_prev_close up to the secondary's call; the
\* triple (price, prev_close, err) of a provider is a payload without more.
PricePrevClosePrimary ==
    /\ fb.pc = "idle"
    /\ \E raised \in BOOLEAN, p \in PayloadsOf("primary") :
         LET d == IF raised THEN NetworkErrorPayload("primary") ELSE p
         IN fb' = IF ~NoError(d) \/ ~HasData(d)
                  THEN [fb EXCEPT !.pc = "secondary",
                                  !.method = "get_price_prev_close", !.d = d]
                  ELSE [fb EXCEPT !.pc = "done",
                                  !.method = "get_price_prev_close",
                                  !.d = d, !.ret = d]
    /\ UNCHANGED <<rs, now, wk, group, snap, alertVars, pv>>

\* The secondary's call of get_price_prev_close and its choice.
PricePrevCloseSecondary ==
    /\ fb.pc = "secondary"
    /\ fb.method = "get_price_prev_close"
    /\ \E raised \in BOOLEAN, p \in PayloadsOf("secondary") :
         LET d2 == IF raised THEN NetworkErrorPayload("secondary") ELSE p
         IN fb' = [fb EXCEPT !.pc = "done", !.d2 = d2, !.secondary_called = TRUE,
                             !.ret = PricePrevCloseResult(fb.d, d2)]
    /\ UNCHANGED <<rs, now, wk, group, snap, alertVars, pv>>

\* The caller has the payload; the next call starts afresh.
FallbackReturn ==
    /\ fb.pc = "done"
    /\ fb' = IdleFallback
    /\ UNCHANGED <<rs, now, wk, group, snap, alertVars, pv>>

\* ------------------------------------------------- the providers' get_full

\* The unified payload, with the fields price, prev_close, open and volume of
\* the quote and market_cap for the fundamentals.
FullPayload(source, price, prev_close, open, volume, market_cap, error) ==
    [source |-> source, price |-> price, prev_close |-> prev_close,
     open |-> open, volume |-> volume, market_cap |-> market_cap,
     error |-> error]

\* The payload every get_full starts from: every value None.
CorePayload(source, error) ==
    FullPayload(source, None, None, None, None, None, error)

NoPayload == CorePayload("none", NoneStr)

\* What _f and _i leave of a field of a response: a number or None.
Parsed == {None, Some(1)}

\* The errors of AlphaVantageProvider._get and _global_quote.
AlphaErrors ==
    {"key_missing", "network_error", "rate_limited", "invalid_symbol",
     "empty_quote"}

\* A GLOBAL_QUOTE object after parsing, and the answer of a search model.
QuoteObjects == [price : Parsed, prev_close : Parsed, open : Parsed, volume : Parsed]

\* AlphaVantageProvider.get_full: q_err is the error of _global_quote
\* (NoneStr: the quote q was returned), fault is an exception while the quote
\* is read, ov_ok is an OVERVIEW answer without error, holding market_cap.
AlphaVantageGetFull(q_err, q, fault, ov_ok, market_cap) ==
    LET core == IF q_err # NoneStr THEN CorePayload("alpha_vantage", q_err)
                ELSE IF fault THEN CorePayload("alpha_vantage", "parse_error")
                ELSE FullPayload("alpha_vantage", q.price, q.prev_close,
                                 q.open, q.volume, None, NoneStr)
        filled == IF ov_ok /\ core.error # "parse_error"
                  THEN [core EXCEPT !.market_cap = market_cap]
                  ELSE core
    IN IF filled.price = None /\ filled.prev_close = None
          /\ filled.error = NoneStr
       THEN [filled EXCEPT !.error = "empty_quote"]
       ELSE filled

\* The errors a search model's JSON answer carries after _normalize_err.
AnswerErrors == {NoneStr, "rate_limited", "invalid_symbol"}

\* get_full of the Gemini and of the ChatGPT provider: answered is FALSE when
\* _ask returned None, d is the JSON object, fault an exception in the update.
SearchGetFull(source, answered, d, market_cap, error, fault) ==
    IF ~answered THEN CorePayload(source, "network_error")
    ELSE IF fault THEN CorePayload(source, "parse_error")
    ELSE LET core == FullPayload(source, d.price, d.prev_close, d.open,
                                 d.volume, market_cap, error)
         IN IF core.price = None /\ core.prev_close = None
               /\ core.error = NoneStr
            THEN [core EXCEPT !.error = "empty_quote"]
            ELSE core

\* _Dummy.get_full of get_provider.
DummyGetFull == CorePayload("unconfigured", "unconfigured")

AlphaPayloads ==
    {AlphaVantageGetFull(q_err, q, fault, ov_ok, market_cap) :
        q_err \in AlphaErrors \cup {NoneStr}, q \in QuoteObjects,
        fault \in BOOLEAN, ov_ok \in BOOLEAN, market_cap \in Parsed}

SearchPayloads(source) ==
    {SearchGetFull(source, answered, d, market_cap, error, fault) :
        answered \in BOOLEAN, d \in QuoteObjects, market_cap \in Parsed,
        error \in AnswerErrors, fault \in BOOLEAN}

\* FallbackQuoteProvider.get_full over two providers' payloads; a raise of a
\* provider is replaced by the network_error payload.
CompositeGetFull(d, d2) ==
    IF NoError(d) /\ HasData(d) THEN d ELSE FallbackResult(d, d2)

AlphaCall ==
    /\ \E p \in AlphaPayloads : pv' = p
    /\ UNCHANGED <<rs, now, wk, group, snap, alertVars, fb>>

GeminiCall ==
    /\ \E p \in SearchPayloads("gemini_search") : pv' = p
    /\ UNCHANGED <<rs, now, wk, group, snap, alertVars, fb>>

ChatGPTCall ==
    /\ \E p \in SearchPayloads("chatgpt_search_preview") : pv' = p
    /\ UNCHANGED <<rs, now, wk, group, snap, alertVars, fb>>

DummyCall ==
    /\ pv' = DummyGetFull
    /\ UNCHANGED <<rs, now, wk, group, snap, alertVars, fb>>

\* The composite over Alpha Vantage as the primary and Gemini as the secondary.
CompositeCall ==
    /\ \E d \in AlphaPayloads \cup {CorePayload("primary", "network_error")},
          d2 \in SearchPayloads("gemini_search")
                   \cup {CorePayload("secondary", "network_error")} :
         pv' = CompositeGetFull(d, d2)
    /\ UNCHANGED <<rs, now, wk, group, snap, alertVars, fb>>

\* ------------------------------------------------------------ check_alerts

IdleWorker ==
    [pc |-> "idle", syms |-> <<>>, idx |-> 0, ok_count |-> 0, err_count |-> 0,
     rate_limited_seen |-> FALSE, total_notified |-> 0, fatal |-> FALSE,
     outs |-> <<>>]

Workers == DOMAIN wk
Symbols == DOMAIN group

FreeSlot(w) == wk[w].pc = "idle"
InFlight(w) == wk[w].pc \in {"read", "loop", "eval", "final"}

\* ORDER BY ticker: the ticker order of the symbol ids is the reverse of the
\* id order (tickers are not inserted alphabetically).
TickerBefore(a, b) == a > b

RECURSIVE SortByTicker(_)
SortByTicker(S) ==
    IF S = {} THEN <<>>
    ELSE LET first == CHOOSE a \in S : \A b \in S \ {a} : TickerBefore(a, b)
         IN <<first>> \o SortByTicker(S \ {first})

\* Mutant: the query has no WHERE group_id clause.
Watchlist_AllGroups == SortByTicker(Symbols)

Watchlist == SortByTicker({s \in Symbols : group[s] = "watch"})

\* Mutant: the generic partial takes precedence over rate_limited.
StatusCodeOf_PartialFirst(err_count, rate_limited_seen) ==
    IF err_count # 0 THEN "partial"
    ELSE IF rate_limited_seen THEN "rate_limited"
    ELSE "ok"

StatusCodeOf(err_count, rate_limited_seen) ==
    IF err_count # 0 /\ rate_limited_seen THEN "rate_limited"
    ELSE IF err_count # 0 THEN "partial"
    ELSE "ok"

\* The thread has been handed check_alerts and has not run its first statement.
StartThread(w) ==
    wk' = [wk EXCEPT ![w] = [IdleWorker EXCEPT !.pc = "start"]]

\* Mutant: the start write passes no started timestamp.
WorkerBegin_NoStarted(w) ==
    /\ wk[w].pc = "start"
    /\ rs' = SetRunStatus(rs, "running", Null, Null, NoneStr, UpdatingMsg, 0, 0)
    /\ wk' = [wk EXCEPT ![w].pc = "read"]
    /\ UNCHANGED <<now, group, snap, alertVars, fb, pv>>

\* set_run_status("running", started=..., status_code=None, ...)
WorkerBegin(w) ==
    /\ wk[w].pc = "start"
    /\ rs' = SetRunStatus(rs, "running", now, Null, NoneStr, UpdatingMsg, 0, 0)
    /\ wk' = [wk EXCEPT ![w].pc = "read"]
    /\ UNCHANGED <<now, group, snap, alertVars, fb, pv>>

\* SELECT ... WHERE group_id = WATCH_ID ORDER BY ticker, and the empty case.
WorkerRead(w) ==
    /\ wk[w].pc = "read"
    /\ IF Watchlist = <<>>
       THEN /\ rs' = SetRunStatus(rs, "finished", Null, now, "ok", NoSymbolsMsg, 0, 0)
            /\ wk' = [wk EXCEPT ![w].pc = "final"]
       ELSE /\ wk' = [wk EXCEPT ![w].pc = "loop", ![w].syms = Watchlist]
            /\ UNCHANGED rs
    /\ UNCHANGED <<now, group, snap, alertVars, fb, pv>>

\* Mutant: the except branch skips the symbol (no payload, nothing counted,
\* no snapshot).
WorkerFetch_RaiseSkips(w) ==
    /\ wk[w].pc = "loop"
    /\ wk[w].idx < Len(wk[w].syms)
    /\ \E out \in Outcomes, q \in env.quotes :
         LET s == wk[w].syms[wk[w].idx + 1]
             err == ErrOf(out)
             last == wk[w].idx + 1 = Len(wk[w].syms)
         IN /\ snap' = IF out = "raise" THEN snap
                       ELSE SnapAfterFetch(snap, s, now, out, q)
            /\ wk' = [wk EXCEPT
                 ![w].idx = @ + 1,
                 ![w].ok_count = IF err = NoneStr THEN @ + 1 ELSE @,
                 ![w].err_count = IF err # NoneStr /\ out # "raise" THEN @ + 1 ELSE @,
                 ![w].rate_limited_seen = @ \/ err = "rate_limited",
                 ![w].outs = Append(@, out),
                 ![w].pc = IF last THEN "final" ELSE "loop"]
    /\ UNCHANGED <<rs, now, group, alertVars, fb, pv>>

\* Mutant: the provider call is not guarded, so its exception ends the loop
\* after the failure snapshot.
WorkerFetch_RaiseEndsLoop(w) ==
    /\ wk[w].pc = "loop"
    /\ wk[w].idx < Len(wk[w].syms)
    /\ \E out \in Outcomes, q \in env.quotes :
         LET s == wk[w].syms[wk[w].idx + 1]
             err == ErrOf(out)
             last == wk[w].idx + 1 = Len(wk[w].syms)
         IN /\ snap' = SnapAfterFetch(snap, s, now, out, q)
            /\ wk' = [wk EXCEPT
                 ![w].idx = @ + 1,
                 ![w].ok_count = IF err = NoneStr THEN @ + 1 ELSE @,
                 ![w].err_count = IF err # NoneStr THEN @ + 1 ELSE @,
                 ![w].rate_limited_seen = @ \/ err = "rate_limited",
                 ![w].outs = Append(@, out),
                 ![w].pc = IF last \/ out = "raise" THEN "final" ELSE "loop"]
    /\ UNCHANGED <<rs, now, group, alertVars, fb, pv>>

\* One iteration of the loop over all_symbols, up to the call of
\* _evaluate_and_notify, which returns 0 at once for a symbol without rules.
WorkerFetch(w) ==
    /\ wk[w].pc = "loop"
    /\ wk[w].idx < Len(wk[w].syms)
    /\ \E out \in Outcomes :
       \E q \in IF out = "ok" THEN env.quotes ELSE {NoQuote} :
         LET s == wk[w].syms[wk[w].idx + 1]
             err == ErrOf(out)
             last == wk[w].idx + 1 = Len(wk[w].syms)
             evaluates == err = NoneStr /\ AlertIdsOf(s) # <<>>
         IN /\ snap' = SnapAfterFetch(snap, s, now, out, q)
            /\ wk' = [wk EXCEPT
                 ![w].idx = @ + 1,
                 ![w].ok_count = IF err = NoneStr THEN @ + 1 ELSE @,
                 ![w].err_count = IF err # NoneStr THEN @ + 1 ELSE @,
                 ![w].rate_limited_seen = @ \/ err = "rate_limited",
                 ![w].outs = Append(@, out),
                 ![w].pc = IF evaluates THEN "eval"
                           ELSE IF last THEN "final" ELSE "loop"]
            /\ IF evaluates
               THEN ev' = [ev EXCEPT ![w] = BeginEvaluate(s, q, now)]
               ELSE UNCHANGED ev
    /\ UNCHANGED <<rs, now, group, alerts, alert_state, today, sends, env, fb, pv>>

\* Mutant: there is no finally block, the exception ends the thread.
WorkerFatal_NoFinally(w) ==
    /\ wk[w].pc \in {"read", "loop"}
    /\ wk' = [wk EXCEPT ![w] = IdleWorker]
    /\ UNCHANGED <<rs, now, group, snap, alertVars, fb, pv>>

\* An exception other than the provider's, caught by the outer except:
\* reading the watchlist fails; or, in an iteration whose counter has been
\* incremented, the upsert fails (no snapshot), or the evaluation of the
\* alerts fails after the snapshot of a successful fetch.
WorkerFatal(w) ==
    /\ \/ /\ wk[w].pc = "read"
          /\ wk' = [wk EXCEPT ![w].pc = "final", ![w].fatal = TRUE]
          /\ UNCHANGED snap
       \/ /\ wk[w].pc = "loop"
          /\ wk[w].idx < Len(wk[w].syms)
          /\ \E out \in Outcomes, upserted \in BOOLEAN, q \in env.quotes :
               LET s == wk[w].syms[wk[w].idx + 1]
                   err == ErrOf(out)
               IN /\ upserted => err = NoneStr
                  /\ snap' = IF upserted THEN SnapAfterFetch(snap, s, now, out, q)
                              ELSE snap
                  /\ wk' = [wk EXCEPT
                       ![w].ok_count = IF err = NoneStr THEN @ + 1 ELSE @,
                       ![w].err_count = IF err # NoneStr THEN @ + 1 ELSE @,
                       ![w].rate_limited_seen = @ \/ err = "rate_limited",
                       ![w].outs = Append(@, out),
                       ![w].pc = "final", ![w].fatal = TRUE]
    /\ UNCHANGED <<rs, now, group, alertVars, fb, pv>>

\* The finally block; the thread then returns and its locals are gone.
WorkerFinalize(w) ==
    /\ wk[w].pc = "final"
    /\ rs' = SetRunStatus(rs, "finished", Null, now,
                StatusCodeOf(wk[w].err_count, wk[w].rate_limited_seen),
                UpdatedMsg(wk[w].ok_count, wk[w].err_count, wk[w].total_notified),
                wk[w].ok_count, wk[w].err_count)
    /\ wk' = [wk EXCEPT ![w] = IdleWorker]
    /\ UNCHANGED <<now, group, snap, alertVars, fb, pv>>

WorkerStep(w) ==
    \/ WorkerBegin(w)
    \/ WorkerRead(w)
    \/ WorkerFetch(w)
    \/ WorkerFinalize(w)

\* ---------------------------------------------------- triggers and handlers

\* A cron trigger fires: the scheduler runs check_alerts, unconditionally.
CronFire(w) ==
    /\ FreeSlot(w)
    /\ StartThread(w)
    /\ UNCHANGED <<rs, now, group, snap, alertVars, fb, pv>>

\* POST /api/update_all: the "status" of its response.
UpdateAllResponse(r, t) ==
    IF IsRunAlreadyRunning(AutoRecoverRunStatus(r, t))
    THEN "already_running"
    ELSE "started"

ApiUpdateAll ==
    /\ rs' = AutoRecoverRunStatus(rs, now)
    /\ IF UpdateAllResponse(rs, now) = "already_running"
       THEN UNCHANGED wk
       ELSE \E w \in Workers : FreeSlot(w) /\ StartThread(w)
    /\ UNCHANGED <<now, group, snap, alertVars, fb, pv>>

\* GET /api/run_status: the record it returns.
RunStatusResponse(r, t) == AutoRecoverRunStatus(r, t)

ApiRunStatus ==
    /\ rs' = RunStatusResponse(rs, now)
    /\ UNCHANGED <<now, wk, group, snap, alertVars, fb, pv>>

\* GET /api/health
Health ==
    /\ rs' = AutoRecoverRunStatus(rs, now)
    /\ UNCHANGED <<now, wk, group, snap, alertVars, fb, pv>>

\* Mutant: the rules are evaluated after the snapshot whether or not the
\* fetch returned an error.
ApiUpdateSymbol_EvaluatesOnError(s) ==
    /\ ev[Req].pc = "idle"
    /\ rs' = AutoRecoverRunStatus(rs, now)
    /\ IF group[s] = "deleted"
       THEN UNCHANGED <<snap, ev>>
       ELSE \E out \in Outcomes, q \in env.quotes :
              /\ snap' = SnapAfterFetch(snap, s, now, out, q)
              /\ IF AlertIdsOf(s) # <<>>
                 THEN ev' = [ev EXCEPT ![Req] = BeginEvaluate(s, q, now)]
                 ELSE UNCHANGED ev
    /\ UNCHANGED <<now, wk, group, alerts, alert_state, today, sends, env, fb, pv>>

\* POST /api/update_symbol/{symbol_id}, up to the call of
\* _evaluate_and_notify; the id of a deleted symbol gets 404 after the
\* auto-recovery.
ApiUpdateSymbol(s) ==
    /\ ev[Req].pc = "idle"
    /\ rs' = AutoRecoverRunStatus(rs, now)
    /\ IF group[s] = "deleted"
       THEN UNCHANGED <<snap, ev>>
       ELSE \E out \in Outcomes :
              \E q \in IF out = "ok" THEN env.quotes ELSE {NoQuote} :
                 /\ snap' = SnapAfterFetch(snap, s, now, out, q)
                 /\ IF ErrOf(out) = NoneStr /\ AlertIdsOf(s) # <<>>
                    THEN ev' = [ev EXCEPT ![Req] = BeginEvaluate(s, q, now)]
                    ELSE UNCHANGED ev
    /\ UNCHANGED <<now, wk, group, alerts, alert_state, today, sends, env, fb, pv>>

\* DELETE FROM alerts WHERE symbol_id = s. A deleted row keeps its place in
\* the table under the type "deleted": ids are AUTOINCREMENT, never reused.
DeleteAlertsOf(tbl, s) ==
    [i \in DOMAIN tbl |->
        IF tbl[i].symbol_id = s THEN [tbl[i] EXCEPT !.type = "deleted"]
        ELSE tbl[i]]

\* The rows save_alerts inserts for a request body with the fields above,
\* below and earn_days (numbers or missing) and empty pct_drop and pct_jump
\* lists.
NewAlerts(s, above, below, earn_days) ==
    (IF above # None
     THEN <<[symbol_id |-> s, type |-> "above", value |-> Val(above)]>>
     ELSE <<>>)
    \o (IF below # None
        THEN <<[symbol_id |-> s, type |-> "below", value |-> Val(below)]>>
        ELSE <<>>)
    \o (IF earn_days # None
        THEN <<[symbol_id |-> s, type |-> "earnings_days",
                value |-> Val(earn_days)]>>
        ELSE IF EARNINGS_NOTIFY_DEFAULT_DAYS >= 0
        THEN <<[symbol_id |-> s, type |-> "earnings_days",
                value |-> EARNINGS_NOTIFY_DEFAULT_DAYS]>>
        ELSE <<>>)

\* Mutant: the id column is a plain INTEGER PRIMARY KEY, a new row takes the
\* largest id in use plus one, and finds the alert_state row left at that id.
SaveAlerts_ReusesIds(s) ==
    /\ \E above \in {None, Some(2)}, below \in {None, Some(1)},
          earn_days \in {None, Some(0)} :
         LET new == NewAlerts(s, above, below, earn_days)
             kept == DeleteAlertsOf(alerts, s)
             live == {0} \cup {i \in DOMAIN kept : kept[i].type # "deleted"}
             top == CHOOSE m \in live : \A i \in live : i <= m
         IN /\ Len(alerts) + Len(new) <= MaxAlerts
            /\ alerts' = SubSeq(kept, 1, top) \o new
            /\ alert_state' =
                 [i \in 1..(top + Len(new)) |->
                    IF i <= Len(alert_state) THEN alert_state[i]
                    ELSE NoAlertState]
    /\ UNCHANGED <<rs, now, wk, group, snap, ev, today, sends, env, fb, pv>>

\* POST /api/alerts/{symbol_id}: the rules of the symbol are replaced; the
\* alert_state table is not touched, the new ids have no row in it.
SaveAlerts(s) ==
    /\ \E above \in {None, Some(2)}, below \in {None, Some(1)},
          earn_days \in {None, Some(0)} :
         LET new == NewAlerts(s, above, below, earn_days)
         IN /\ Len(alerts) + Len(new) <= MaxAlerts
            /\ alerts' = DeleteAlertsOf(alerts, s) \o new
            /\ alert_state' =
                 alert_state \o [i \in 1..Len(new) |-> NoAlertState]
    /\ UNCHANGED <<rs, now, wk, group, snap, ev, today, sends, env, fb, pv>>

\* DELETE /api/symbols/{symbol_id}: the alert_state rows of the rules the
\* symbol has now, its rules, its snapshot and the symbol itself.
DeleteSymbol(s) ==
    /\ alert_state' =
         [a \in DOMAIN alert_state |->
            IF alerts[a].symbol_id = s /\ alerts[a].type # "deleted"
            THEN NoAlertState ELSE alert_state[a]]
    /\ alerts' = DeleteAlertsOf(alerts, s)
    /\ snap' = [snap EXCEPT ![s] = NoSnap]
    /\ group' = [group EXCEPT ![s] = "deleted"]
    /\ UNCHANGED <<rs, now, wk, ev, today, sends, env, fb, pv>>

\* POST /api/symbols: a symbol whose id was not handed out yet gets its row
\* in the chosen group and the seeded earnings rule under the next rule id.
\* (A symbol without a row in the symbols table is in the group "deleted".)
AddSymbol(s) ==
    /\ group[s] = "deleted"
    /\ \A i \in DOMAIN alerts : alerts[i].symbol_id # s
    /\ \E target \in {"watch", "archived"} :
         group' = [group EXCEPT ![s] = target]
    /\ IF EARNINGS_NOTIFY_DEFAULT_DAYS >= 0
       THEN /\ Len(alerts) + 1 <= MaxAlerts
            /\ alerts' = Append(alerts,
                              [symbol_id |-> s, type |-> "earnings_days",
                               value |-> EARNINGS_NOTIFY_DEFAULT_DAYS])
            /\ alert_state' = Append(alert_state, NoAlertState)
       ELSE UNCHANGED <<alerts, alert_state>>
    /\ UNCHANGED <<rs, now, wk, snap, ev, today, sends, env, fb, pv>>

\* POST /api/run_status/reset
ApiRunStatusReset ==
    /\ rs' = ForceFinishRunStatus(rs, now, "manual_reset", ManualResetMsg)
    /\ UNCHANGED <<now, wk, group, snap, alertVars, fb, pv>>

\* POST /api/symbols/{symbol_id}/move
MoveSymbol(s) ==
    /\ \E target \in {"watch", "archived"} : group' = [group EXCEPT ![s] = target]
    /\ UNCHANGED <<rs, now, wk, snap, alertVars, fb, pv>>

\* The process is restarted: its threads are gone, and the startup hook runs.
Restart ==
    /\ wk' = [w \in Workers |-> IdleWorker]
    /\ ev' = [e \in Evaluators |-> IdleEval]
    /\ rs' = RecoverStuckRunStatus(rs, now)
    /\ UNCHANGED <<now, group, snap, alerts, alert_state, today, sends, env, fb, pv>>

Tick ==
    /\ now < MaxTime
    /\ now' = now + 1
    /\ UNCHANGED <<rs, wk, group, snap, alertVars, fb, pv>>

\* The local date moves on to the next day.
DayTick ==
    /\ today < MaxDay
    /\ today' = today + 1
    /\ UNCHANGED <<rs, now, wk, group, snap, alerts, alert_state, ev, sends, env, fb, pv>>

\* ----------------------------------------------------------- specifications

Quote(price, open, next_earning_day) ==
    [price |-> price, open |-> open, next_earning_day |-> next_earning_day]

\* A deployment in which no alert can be sent; every payload without error
\* is the same quote.
NoEnv ==
    [quotes |-> {Quote(Some(1), None, None)}, webhook |-> FALSE,
     faults |-> {FALSE}]

\* A store of the symbols S, without rules, and the threads W.
InitWith(W, S) ==
    /\ rs = SeedRunStatus
    /\ now = 0
    /\ wk = [w \in W |-> IdleWorker]
    /\ group \in [S -> {"watch", "archived"}]
    /\ snap = [s \in S |-> NoSnap]
    /\ alerts = <<>>
    /\ alert_state = <<>>
    /\ ev = [e \in W \cup {Req} |-> IdleEval]
    /\ today = 0
    /\ sends = <<>>
    /\ env = NoEnv
    /\ fb = IdleFallback
    /\ pv = NoPayload

\* The whole backend: every trigger, handler and thread step.
Init == InitWith(1..MaxWorkers, 1..NumSymbols)

Next ==
    \/ Tick
    \/ \E w \in Workers : CronFire(w)
    \/ ApiUpdateAll
    \/ ApiRunStatus
    \/ Health
    \/ \E s \in Symbols : ApiUpdateSymbol(s)
    \/ ApiRunStatusReset
    \/ \E s \in Symbols : MoveSymbol(s)
    \/ Restart
    \/ \E w \in Workers : WorkerStep(w)
    \/ \E w \in Workers : WorkerFatal(w)

Spec == Init /\ [][Next]_vars

\* The run-status tracker under the status-reading handlers: two threads, one
\* symbol, a fixed watchlist, no restart, no exception outside the provider's.
InitStatus == InitWith({1, 2}, {1})

NextStatus ==
    \/ Tick
    \/ \E w \in Workers : CronFire(w)
    \/ ApiUpdateAll
    \/ ApiRunStatus
    \/ Health
    \/ \E s \in Symbols : ApiUpdateSymbol(s)
    \/ ApiRunStatusReset
    \/ \E w \in Workers : WorkerStep(w)

SpecStatus == InitStatus /\ [][NextStatus]_vars

\* One bulk run after another on the scheduler's thread, over every watchlist
\* of BatchSymbols symbols; the clock stands still.
InitBatch == InitWith({1}, 1..BatchSymbols)

NextBatch ==
    \/ \E w \in Workers : CronFire(w)
    \/ \E w \in Workers : WorkerStep(w)
    \/ \E w \in Workers : WorkerFatal(w)

SpecBatch == InitBatch /\ [][NextBatch]_vars

\* Every started thread keeps running: its calls return or time out.
FairBatch == SpecBatch /\ WF_vars(WorkerStep(1))

\* Every writer of the run_status row, restarts included: two threads, one
\* symbol, a fixed watchlist.
InitRecover == InitWith({1, 2}, {1})

NextRecover ==
    \/ Tick
    \/ \E w \in Workers : CronFire(w)
    \/ ApiUpdateAll
    \/ ApiRunStatus
    \/ ApiRunStatusReset
    \/ Restart
    \/ \E w \in Workers : WorkerStep(w)
    \/ \E w \in Workers : WorkerFatal(w)

SpecRecover == InitRecover /\ [][NextRecover]_vars

\* A store of the symbols S, all on the watchlist, whose rules are one of the
\* tables, in one of the deployments; no rule has been sent yet.
InitAlerts(W, S, Tables, Envs) ==
    /\ rs = SeedRunStatus
    /\ now = 0
    /\ wk = [w \in W |-> IdleWorker]
    /\ group = [s \in S |-> "watch"]
    /\ snap = [s \in S |-> NoSnap]
    /\ alerts \in Tables
    /\ alert_state = [a \in DOMAIN alerts |-> NoAlertState]
    /\ ev = [e \in W \cup {Req} |-> IdleEval]
    /\ today = 0
    /\ sends = <<>>
    /\ env \in Envs
    /\ fb = IdleFallback
    /\ pv = NoPayload

\* The prices of a payload whose other fields are missing.
PriceQuotes == {Quote(Some(p), None, None) : p \in 1..MaxPrice}

\* Bulk runs and on-demand updates of the same symbol, which has one rule
\* "above 2", within one second; the price is 3.
InitRace ==
    InitAlerts({1}, {1},
               {<<[symbol_id |-> 1, type |-> "above", value |-> 2]>>},
               {[quotes |-> {Quote(Some(3), None, None)}, webhook |-> TRUE,
                 faults |-> {FALSE}]})

NextRace ==
    \/ \E w \in Workers : CronFire(w)
    \/ \E w \in Workers : WorkerStep(w)
    \/ \E s \in Symbols : ApiUpdateSymbol(s)
    \/ \E e \in Evaluators : EvalStep(e)

SpecRace == InitRace /\ [][NextRace]_vars

\* The earnings dates of a payload whose other fields are missing.
EarningsQuotes ==
    {Quote(None, None, d) : d \in {None} \cup {Some(k) : k \in 1..(MaxDay + 1)}}

\* On-demand updates, one after the other, of a symbol with the seeded rule
\* "earnings in 1 day", while the clock and the calendar move on and the
\* upstream earnings date changes at will.
InitEarnings ==
    InitAlerts({}, {1},
               {<<[symbol_id |-> 1, type |-> "earnings_days", value |-> 1]>>},
               {[quotes |-> EarningsQuotes, webhook |-> TRUE, faults |-> {FALSE}]})

NextEarnings ==
    \/ Tick
    \/ DayTick
    \/ \E s \in Symbols : ApiUpdateSymbol(s)
    \/ \E e \in Evaluators : EvalStep(e)

SpecEarnings == InitEarnings /\ [][NextEarnings]_vars

\* On-demand updates, one after the other, of a symbol with the rules
\* "above 2" and "earnings in 1 day"; the webhook is configured or not, a
\* delivery may fail and the evaluation of a rule may raise.
InitRules ==
    InitAlerts({}, {1},
               {<<[symbol_id |-> 1, type |-> "above", value |-> 2],
                  [symbol_id |-> 1, type |-> "earnings_days", value |-> 1]>>},
               {[quotes |-> {Quote(Some(3), None, Some(1)),
                             Quote(Some(3), None, None),
                             Quote(Some(1), None, Some(2))},
                 webhook |-> wh, faults |-> BOOLEAN] : wh \in BOOLEAN})

NextRules ==
    \/ Tick
    \/ \E s \in Symbols : ApiUpdateSymbol(s)
    \/ \E e \in Evaluators : EvalStep(e)

SpecRules == InitRules /\ [][NextRules]_vars

\* The payloads over the known and unknown prices and opens; an open is 0 or
\* divides 100.
DecisionQuotes ==
    {Quote(p, o, None) :
        p \in {None} \cup {Some(k) : k \in 1..MaxPrice},
        o \in {None} \cup {Some(k) : k \in {0, 1, 2, 4}}}

\* The tables of one price or percent rule, of every type, whose value is
\* negative, a price or a percentage.
DecisionTables ==
    {<<[symbol_id |-> 1, type |-> t, value |-> v]>> :
        t \in CooldownTypes, v \in {-50, 2, 25, 50}}

\* On-demand updates, one after the other, of a symbol with one price or
\* percent rule, over every payload, while the clock moves on.
InitDecision ==
    InitAlerts({}, {1}, DecisionTables,
               {[quotes |-> DecisionQuotes, webhook |-> TRUE, faults |-> {FALSE}]})

NextDecision ==
    \/ Tick
    \/ \E s \in Symbols : ApiUpdateSymbol(s)
    \/ \E e \in Evaluators : EvalStep(e)

SpecDecision == InitDecision /\ [][NextDecision]_vars

\* Bulk runs and on-demand updates, within one second, over two symbols that
\* move between the watch group and the archive; each symbol has a rule
\* "above 2" and the prices stay below it, so that no evaluation reaches the
\* webhook.
FetchQuotes == {Quote(Some(p), None, None) : p \in 1..2}

InitFetch ==
    /\ InitAlerts({1}, {1, 2},
                  {<<[symbol_id |-> 1, type |-> "above", value |-> 2],
                     [symbol_id |-> 2, type |-> "above", value |-> 2]>>},
                  {[quotes |-> FetchQuotes, webhook |-> TRUE,
                    faults |-> {FALSE}]})

NextFetch ==
    \/ \E w \in Workers : CronFire(w)
    \/ \E w \in Workers : WorkerStep(w)
    \/ \E s \in Symbols : ApiUpdateSymbol(s)
    \/ \E s \in Symbols : MoveSymbol(s)
    \/ \E e \in Evaluators : EvalRule(e)
    \/ \E e \in Evaluators : EvalReturn(e)

SpecFetch == InitFetch /\ [][NextFetch]_vars

\* Bulk runs and on-demand updates of one symbol without rules while the
\* clock moves on; a payload without error holds one of the prices.
SnapshotQuotes == PriceQuotes

InitSnapshot ==
    InitAlerts({1}, {1}, {<<>>},
               {[quotes |-> SnapshotQuotes, webhook |-> TRUE,
                 faults |-> {FALSE}]})

NextSnapshot ==
    \/ Tick
    \/ \E w \in Workers : CronFire(w)
    \/ \E w \in Workers : WorkerStep(w)
    \/ \E s \in Symbols : ApiUpdateSymbol(s)

SpecSnapshot == InitSnapshot /\ [][NextSnapshot]_vars

\* The rules of one symbol are saved again and again, between on-demand
\* updates at the price 3, and the symbol is deleted at some point; the store
\* starts with the rule add_symbol seeds. Saving and deleting happen between
\* evaluations.
InitStore ==
    InitAlerts({}, {1},
               {<<[symbol_id |-> 1, type |-> "earnings_days",
                   value |-> EARNINGS_NOTIFY_DEFAULT_DAYS]>>},
               {[quotes |-> {Quote(Some(3), None, None)}, webhook |-> TRUE,
                 faults |-> {FALSE}]})

NextStore ==
    \/ \E s \in Symbols : ApiUpdateSymbol(s)
    \/ \E e \in Evaluators : EvalStep(e)
    \/ \E s \in Symbols : ev[Req].pc = "idle" /\ SaveAlerts(s)
    \/ \E s \in Symbols : ev[Req].pc = "idle" /\ DeleteSymbol(s)

SpecStore == InitStore /\ [][NextStore]_vars

\* The store of SpecStore and a second symbol, which is added at some point
\* and whose rules are saved; the on-demand updates are those of the first.
InitIds ==
    /\ rs = SeedRunStatus
    /\ now = 0
    /\ wk = <<>>
    /\ group = [s \in {1, 2} |-> IF s = 1 THEN "watch" ELSE "deleted"]
    /\ snap = [s \in {1, 2} |-> NoSnap]
    /\ alerts = <<[symbol_id |-> 1, type |-> "earnings_days",
                   value |-> EARNINGS_NOTIFY_DEFAULT_DAYS]>>
    /\ alert_state = <<NoAlertState>>
    /\ ev = [e \in {Req} |-> IdleEval]
    /\ today = 0
    /\ sends = <<>>
    /\ env = [quotes |-> {Quote(Some(3), None, None)}, webhook |-> TRUE,
              faults |-> {FALSE}]
    /\ fb = IdleFallback
    /\ pv = NoPayload

NextIds ==
    \/ ApiUpdateSymbol(1)
    \/ \E e \in Evaluators : EvalStep(e)
    \/ \E s \in Symbols : ev[Req].pc = "idle" /\ SaveAlerts(s)
    \/ \E s \in Symbols : ev[Req].pc = "idle" /\ DeleteSymbol(s)
    \/ \E s \in Symbols : ev[Req].pc = "idle" /\ AddSymbol(s)

SpecIds == InitIds /\ [][NextIds]_vars

\* Symbols are deleted while bulk runs and on-demand updates go on: one
\* thread, two symbols without rules, within one second.
InitDelete == InitWith({1}, {1, 2})

NextDelete ==
    \/ \E w \in Workers : CronFire(w)
    \/ \E w \in Workers : WorkerStep(w)
    \/ \E s \in Symbols : ApiUpdateSymbol(s)
    \/ \E s \in Symbols : DeleteSymbol(s)

SpecDelete == InitDelete /\ [][NextDelete]_vars

\* On-demand bulk triggers only: POST /api/update_all arrives at any moment,
\* within one second, and the threads it starts run; there is no cron trigger.
InitDispatch == InitWith({1, 2}, {1})

NextDispatch ==
    \/ ApiUpdateAll
    \/ \E w \in Workers : WorkerStep(w)

SpecDispatch == InitDispatch /\ [][NextDispatch]_vars

\* The providers alone: one get_full call after the other.
InitProviders == InitWith({}, {})

NextProviders ==
    \/ AlphaCall
    \/ GeminiCall
    \/ ChatGPTCall
    \/ DummyCall
    \/ CompositeCall

SpecProviders == InitProviders /\ [][NextProviders]_vars

\* The fallback composite alone: one call after the other, of get_full or of
\* get_price_prev_close, over every pair of a primary's and a secondary's
\* behaviour.
InitFallback == InitWith({}, {})

NextFallback ==
    \/ FallbackPrimary
    \/ FallbackSecondary
    \/ PricePrevClosePrimary
    \/ PricePrevCloseSecondary
    \/ FallbackReturn

SpecFallback == InitFallback /\ [][NextFallback]_vars

\* ------------------------------------------------------------------ claims

\* A request handler that begins with _auto_recover_run_status().
StatusRead ==
    \/ ApiRunStatus
    \/ ApiUpdateAll
    \/ Health
    \/ \E s \in Symbols : ApiUpdateSymbol(s)

RunIsStale == rs.phase = "running" /\ rs.started_epoch # Null
                /\ now - rs.started_epoch > RUN_TIMEOUT_SECONDS
RunIsYoung == rs.phase = "running" /\ rs.started_epoch # Null
                /\ now - rs.started_epoch < RUN_TIMEOUT_SECONDS

ErrIndexes(outs) == {i \in 1..Len(outs) : outs[i] # "ok"}
OkIndexes(outs) == {i \in 1..Len(outs) : outs[i] = "ok"}
RateLimitedIn(outs) == \E i \in 1..Len(outs) : outs[i] = "rate_limited"

\* C1: at any moment at most one execution of check_alerts is in progress
\* (has recorded its start and not yet finalized).
C1_SingleFlight == Cardinality({w \in Workers : InFlight(w)}) <= 1

\* C2: no run start writes phase=running while the persisted phase is running.
C2_NoRunningToRunning ==
    [][\A w \in Workers : WorkerBegin(w) => rs.phase # "running"]_vars

\* C3: api_update_all called while the phase is running and the run is younger
\* than the timeout reports already_running, starts no thread and leaves the
\* run_status row as it is.
C3_UpdateAllRefused ==
    [][(ApiUpdateAll /\ RunIsYoung)
         => /\ UpdateAllResponse(rs, now) = "already_running"
            /\ wk' = wk
            /\ rs' = rs]_vars

C3_Witness ==
    /\ RunIsYoung
    /\ \E w \in Workers : InFlight(w)
    /\ \E w \in Workers : FreeSlot(w)
    /\ UpdateAllResponse(rs, now) = "already_running"

\* C4: the phase is one of idle, running, finished, starts as idle, and changes
\* only by idle->running, running->finished and finished->running.
C4_PhaseLifecycle ==
    [][/\ rs.phase \in {"idle", "running", "finished"}
       /\ rs'.phase \in {"idle", "running", "finished"}
       /\ rs'.phase # rs.phase =>
            <<rs.phase, rs'.phase>> \in {<<"idle", "running">>,
                                         <<"running", "finished">>,
                                         <<"finished", "running">>}]_vars

\* C5: every run that has recorded its start eventually finalizes, and the
\* step by which it ends writes phase=finished, also after a provider
\* exception, an unexpected exception or an empty watchlist.
C5_EveryRunFinalizes ==
    /\ \A w \in {1} : InFlight(w) ~> ~InFlight(w)
    /\ [][\A w \in Workers :
            (InFlight(w) /\ ~InFlight(w)') => rs'.phase = "finished"]_vars

\* A run ended by an unexpected exception after it had counted its first
\* symbol (the upsert failed: no snapshot) has been finalized.
C5_Witness ==
    /\ rs.phase = "finished"
    /\ rs.ok_count = 1
    /\ \A s \in Symbols : snap[s] = NoSnap
    /\ \A w \in Workers : ~InFlight(w)

\* C6: a run that finalizes normally writes status_code ok iff no symbol
\* errored, rate_limited iff some symbol's error was rate_limited, partial iff
\* some symbol errored and none of the errors was rate_limited.
C6_FinalStatusCode ==
    [][\A w \in Workers :
         (WorkerFinalize(w) /\ ~wk[w].fatal) =>
            /\ rs'.status_code = "ok" <=> ErrIndexes(wk[w].outs) = {}
            /\ rs'.status_code = "rate_limited" <=> RateLimitedIn(wk[w].outs)
            /\ rs'.status_code = "partial" <=>
                 (ErrIndexes(wk[w].outs) # {} /\ ~RateLimitedIn(wk[w].outs))]_vars

\* A finalized run with two failed symbols, none of them rate limited.
C6_Witness ==
    /\ rs.phase = "finished"
    /\ rs.status_code = "partial"
    /\ rs.err_count = 2
    /\ {snap[s].note : s \in Symbols} = {"Price check ok", "network_error", "invalid_symbol"}

\* C7: a run whose loop runs to the end writes ok_count = the symbols fetched
\* without error, err_count = the symbols whose fetch returned an error or
\* raised, and their sum is the number of symbols read at the run's start.
C7_FinalCounts ==
    [][\A w \in Workers :
         (WorkerFinalize(w) /\ ~wk[w].fatal) =>
            /\ Len(wk[w].outs) = Len(wk[w].syms)
            /\ rs'.ok_count = Cardinality(OkIndexes(wk[w].outs))
            /\ rs'.err_count = Cardinality(ErrIndexes(wk[w].outs))
            /\ rs'.ok_count + rs'.err_count = Len(wk[w].syms)]_vars

\* The run over [A ok, B raises, C rate_limited] (ids 3, 2, 1 in ticker order).
C7_Witness ==
    /\ rs.phase = "finished"
    /\ rs.ok_count = 1 /\ rs.err_count = 2 /\ rs.status_code = "rate_limited"
    /\ Symbols = {1, 2, 3}
    /\ snap[3].note = "Price check ok"
    /\ snap[2].note = "network_error"
    /\ snap[1].note = "rate_limited"

\* C8: a provider exception leaves that symbol a failure snapshot with the
\* network_error note, and the run still fetches and snapshots every later
\* symbol: unless an unexpected exception ends it, the run reaches the end of
\* its list.
C8_RaiseIsLocal ==
    \A w \in Workers :
        /\ \A i \in 1..wk[w].idx :
              /\ snap[wk[w].syms[i]] # NoSnap
              /\ wk[w].outs[i] = "raise" =>
                    /\ snap[wk[w].syms[i]].note = "network_error"
                    /\ snap[wk[w].syms[i]].data = FALSE
        /\ (wk[w].pc = "final" /\ ~wk[w].fatal) => wk[w].idx = Len(wk[w].syms)

\* The provider raised for the first symbol of three and the two after it
\* were fetched without error.
C8_Witness ==
    \E w \in Workers :
        /\ wk[w].pc = "final" /\ ~wk[w].fatal
        /\ wk[w].outs = <<"raise", "ok", "ok">>
        /\ snap[wk[w].syms[1]].note = "network_error"
        /\ snap[wk[w].syms[2]].data /\ snap[wk[w].syms[3]].data

\* C9: a status read made while the phase is running and the run's age exceeds
\* the timeout leaves the row finished / interrupted_timeout, and the result
\* of the read is computed from the recovered row.
C9_StaleReadRecovers ==
    [][(StatusRead /\ RunIsStale)
         => /\ rs'.phase = "finished"
            /\ rs'.status_code = "interrupted_timeout"
            /\ rs'.finished_epoch = now
            /\ RunStatusResponse(rs, now) = rs'
            /\ UpdateAllResponse(rs, now) = "started"]_vars

C9_Witness ==
    /\ rs.phase = "finished"
    /\ rs.status_code = "interrupted_timeout"
    /\ rs.finished_epoch - rs.started_epoch > RUN_TIMEOUT_SECONDS
    /\ \E w \in Workers : InFlight(w)

\* C10: auto-recovery is idempotent: applied again at any later time to the
\* row it produced it changes nothing, applied to an idle or finished row it
\* changes nothing, and a status read of such a row leaves every field as it is.
C10_RecoveryIdempotent ==
    /\ [](LET r == AutoRecoverRunStatus(rs, now)
          IN /\ r.phase # "running" =>
                   \A t \in now..MaxTime : AutoRecoverRunStatus(r, t) = r
             /\ rs.phase \in {"idle", "finished"} => r = rs)
    /\ [][(StatusRead /\ rs.phase # "running") => rs' = rs]_vars

\* A reclassified row, read again later: the time of reclassification stands.
C10_Witness ==
    /\ rs.phase = "finished"
    /\ rs.status_code = "interrupted_timeout"
    /\ rs.message = AutoRecoveredMsg
    /\ rs.finished_epoch < now

\* C11: the startup recovery changes a row found in phase running to finished
\* with status_code interrupted, whatever the run's age, and leaves a row in
\* phase idle or finished as it is.
C11_StartupRecovery ==
    [][Restart =>
         /\ rs.phase = "running" =>
               /\ rs'.phase = "finished"
               /\ rs'.status_code = "interrupted"
               /\ rs'.finished_epoch = now
               /\ rs'.message = RestartedMsg
         /\ rs.phase \in {"idle", "finished"} => rs' = rs]_vars

\* A run interrupted by a restart in the second it had started.
C11_Witness ==
    /\ rs.phase = "finished"
    /\ rs.status_code = "interrupted"
    /\ rs.finished_epoch = rs.started_epoch
    /\ \A w \in Workers : FreeSlot(w)

\* C12: whenever the persisted phase is running, started_epoch is set.
C12_RunningHasStart == rs.phase = "running" => rs.started_epoch # Null

\* A second run is running, started after the first one was finalized.
C12_Witness ==
    /\ rs.phase = "running"
    /\ rs.started_epoch # Null
    /\ rs.finished_epoch # Null
    /\ rs.started_epoch > rs.finished_epoch

\* The delivered notifications of one rule, as indexes of the history.
DeliveriesOf(a) ==
    {i \in DOMAIN sends : sends[i].alert_id = a /\ sends[i].delivered}

\* C13: two deliveries of the same above / below / pct_drop / pct_jump rule
\* come from evaluations at least one cooldown window apart, also when a bulk
\* run and an on-demand update of the symbol overlap.
C13_OneDeliveryPerCooldown ==
    \A a \in DOMAIN alerts :
        alerts[a].type \in CooldownTypes =>
            \A i, j \in DeliveriesOf(a) :
                i < j => Abs(sends[j].at - sends[i].at) >= COOLDOWN_SECONDS

\* C14: per earnings_days rule and per earnings date at most one notification
\* is delivered, over evaluations made one after the other on non-decreasing
\* days while the upstream date changes and changes back.
C14_OncePerEarningsDate ==
    \A a \in DOMAIN alerts :
        alerts[a].type = "earnings_days" =>
            \A i, j \in DeliveriesOf(a) : i < j => sends[i].key # sends[j].key

\* Reminders for two dates were delivered, and the upstream date is back at
\* the first one: the evaluation sends nothing.
C14_Witness ==
    /\ Cardinality(DeliveriesOf(1)) = 2
    /\ ev[Req].pc = "return"
    /\ ev[Req].sent = 0
    /\ \E i, j \in DeliveriesOf(1) :
          /\ i < j
          /\ ev[Req].quote.next_earning_day = Some(sends[i].key)

\* C15: an earnings_days rule that has fired for a date D is due again as soon
\* as the upstream date is another date whose distance in days is the rule's
\* value, whatever the time since the last send; a delivery then stamps it.
C15_EarningsRearms ==
    /\ [][\A a \in DOMAIN alerts :
            (/\ EvalRule(Req)
             /\ CurrentRule(Req) = a
             /\ alerts[a].type = "earnings_days"
             /\ alert_state[a].last_sent_key # Null
             /\ ev[Req].quote.next_earning_day # None
             /\ Val(ev[Req].quote.next_earning_day) # alert_state[a].last_sent_key
             /\ Val(ev[Req].quote.next_earning_day) - today = alerts[a].value)
            => ev'[Req].pc = "send"]_vars
    /\ [][\A a \in DOMAIN alerts :
            (/\ EvalSend(Req)
             /\ CurrentRule(Req) = a
             /\ alerts[a].type = "earnings_days"
             /\ sends'[Len(sends')].delivered)
            => /\ alert_state'[a].last_sent_key = Val(ev[Req].quote.next_earning_day)
               /\ ev'[Req].sent = ev[Req].sent + 1]_vars

\* Two reminders of the rule, for different dates, from evaluations less than
\* a cooldown window apart.
C15_Witness ==
    \E i, j \in DeliveriesOf(1) :
        /\ i < j
        /\ sends[i].key # sends[j].key
        /\ sends[j].at - sends[i].at < COOLDOWN_SECONDS

\* The latest call of _notify_discord for the rule did not deliver.
LastSendFailed(a) ==
    \E i \in DOMAIN sends :
        /\ sends[i].alert_id = a
        /\ ~sends[i].delivered
        /\ \A j \in DOMAIN sends : j > i => sends[j].alert_id # a

\* The condition of the rule, its suppression state left aside.
ConditionHolds(rule, quote, day) ==
    IF rule.type = "earnings_days"
    THEN /\ quote.next_earning_day # None
         /\ Val(quote.next_earning_day) - day = rule.value
    ELSE Trigger(rule.type, rule.value, quote.price,
                 PctFromOpen(quote.price, quote.open))

\* The step of the evaluator is one in which the rule's evaluation raised.
Raises(e) == ev'[e].raised # ev[e].raised

\* C16: a failed delivery (no webhook, non-2xx, network fault) leaves the
\* suppression state of the rule and the sent count as they were, and the
\* rule is sent again by the next evaluation in which its condition holds.
C16_FailedDeliveryKeepsState ==
    /\ [][(EvalSend(Req) /\ ~sends'[Len(sends')].delivered)
            => /\ alert_state' = alert_state
               /\ ev'[Req].sent = ev[Req].sent]_vars
    /\ [][\A a \in DOMAIN alerts :
            (/\ EvalRule(Req)
             /\ CurrentRule(Req) = a
             /\ LastSendFailed(a)
             /\ ConditionHolds(alerts[a], ev[Req].quote, today)
             /\ ~Raises(Req))
            => ev'[Req].pc = "send"]_vars

\* Both rules were sent without delivery, and the next evaluation is about to
\* send the first of them again.
C16_Witness ==
    /\ LastSendFailed(1)
    /\ LastSendFailed(2)
    /\ \A a \in DOMAIN alerts : alert_state[a] = NoAlertState
    /\ ev[Req].pc = "send"
    /\ ev[Req].idx = 0
    /\ ev[Req].sent = 0

\* C17: a delivery stamps the rule with the timestamp of the evaluation; an
\* earnings_days rule also gets the earnings date as key, the key of another
\* rule stays; the state of every other rule stays.
C17_StampOnDelivery ==
    [][\A a \in DOMAIN alerts :
         (/\ EvalSend(Req)
          /\ CurrentRule(Req) = a
          /\ sends'[Len(sends')].delivered)
         => /\ alert_state'[a].last_sent_epoch = ev[Req].now_epoch
            /\ alerts[a].type \in CooldownTypes =>
                  alert_state'[a].last_sent_key = alert_state[a].last_sent_key
            /\ alerts[a].type = "earnings_days" =>
                  alert_state'[a].last_sent_key = Val(ev[Req].quote.next_earning_day)
            /\ \A b \in DOMAIN alerts \ {a} : alert_state'[b] = alert_state[b]]_vars

\* Both rules are stamped, by evaluations of different seconds; the price
\* rule has no key, the earnings rule has the date as key.
C17_Witness ==
    /\ alert_state[1].last_sent_epoch # Null
    /\ alert_state[1].last_sent_key = Null
    /\ alert_state[2].last_sent_epoch # Null
    /\ alert_state[2].last_sent_epoch # alert_state[1].last_sent_epoch
    /\ alert_state[2].last_sent_key = 1
    /\ alert_state[1].last_sent_epoch < now

\* C19: an exception in the evaluation of one rule sends and stamps nothing
\* and the loop goes on: every rule of the symbol is evaluated, and a rule
\* whose evaluation does not raise is sent iff it is due, whether or not a
\* rule before it raised.
C19_RaiseIsLocalToRule ==
    /\ [][\A a \in DOMAIN alerts :
            (EvalRule(Req) /\ CurrentRule(Req) = a /\ Raises(Req))
            => /\ alert_state' = alert_state
               /\ sends' = sends
               /\ ev'[Req].sent = ev[Req].sent
               /\ ev'[Req].idx = ev[Req].idx + 1
               /\ ev'[Req].pc = IF ev'[Req].idx < Len(ev[Req].rules)
                                THEN "rule" ELSE "return"]_vars
    /\ [][\A a \in DOMAIN alerts :
            (EvalRule(Req) /\ CurrentRule(Req) = a /\ ~Raises(Req))
            => (ev'[Req].pc = "send"
                  <=> ShouldNotify(alerts[a], ev[Req].quote, alert_state[a],
                                   ev[Req].now_epoch, today))]_vars
    /\ [](ev[Req].pc = "return" => ev[Req].idx = Len(ev[Req].rules))

\* The first rule raised; the second was sent, delivered and stamped.
C19_Witness ==
    /\ ev[Req].pc = "return"
    /\ ev[Req].raised = {1}
    /\ ev[Req].sent = 1
    /\ alert_state[1] = NoAlertState
    /\ alert_state[2] = [last_sent_epoch |-> ev[Req].now_epoch, last_sent_key |-> 1]
    /\ sends[Len(sends)].alert_id = 2

\* The reference table: pctFromOpen = (price - open) / open * 100 is known
\* when price and open are known and open is not 0; it is compared with a
\* bound x by cross-multiplication (open is positive here).
PctKnown(price, open) == price # None /\ open # None /\ Val(open) # 0
PctAtMost(price, open, x) == (Val(price) - Val(open)) * 100 <= x * Val(open)
PctAtLeast(price, open, x) == (Val(price) - Val(open)) * 100 >= x * Val(open)

ReferenceFires(type, value, price, open) ==
    CASE type = "above" -> price # None /\ Val(price) >= value
      [] type = "below" -> price # None /\ Val(price) <= value
      [] type = "pct_drop" -> PctKnown(price, open) /\ PctAtMost(price, open, -Abs(value))
      [] type = "pct_jump" -> PctKnown(price, open) /\ PctAtLeast(price, open, Abs(value))

\* C18: a price or percent rule outside its cooldown is sent iff the reference
\* table says so, for every price, open and value of the bounded sets.
C18_DecisionTable ==
    [][\A a \in DOMAIN alerts :
         (/\ EvalRule(Req)
          /\ CurrentRule(Req) = a
          /\ alerts[a].type \in CooldownTypes
          /\ CooldownOk(alert_state[a].last_sent_epoch, ev[Req].now_epoch))
         => (ev'[Req].pc = "send"
               <=> ReferenceFires(alerts[a].type, alerts[a].value,
                                  ev[Req].quote.price, ev[Req].quote.open))]_vars

\* The rule "pct_drop -50" was delivered for price 1 and open 2, a drop of
\* exactly 50 percent, after its cooldown had passed.
C18_Witness ==
    /\ alerts[1].type = "pct_drop"
    /\ alerts[1].value = -50
    /\ ev[Req].pc = "return"
    /\ ev[Req].sent = 1
    /\ ev[Req].quote.price = Some(1)
    /\ ev[Req].quote.open = Some(2)
    /\ Cardinality(DeliveriesOf(1)) = 2

\* C20: when the primary's payload has no error and a price or a prev_close,
\* get_full returns that payload and does not call the secondary.
C20_PrimarySuffices ==
    (/\ fb.pc # "idle"
     /\ fb.d.error = NoneStr
     /\ (fb.d.price # None \/ fb.d.prev_close # None))
    => /\ fb.pc = "done"
       /\ fb.ret = fb.d
       /\ fb.ret.source = "primary"
       /\ ~fb.secondary_called

\* The primary's payload has a prev_close and no price: it is returned, the
\* secondary has not been called.
C20_Witness ==
    /\ fb.pc = "done"
    /\ fb.d.error = NoneStr
    /\ fb.d.price = None
    /\ fb.d.prev_close # None
    /\ fb.ret = fb.d
    /\ ~fb.secondary_called

\* A get_full call of the composite that has consulted both providers.
BothConsulted == fb.method = "get_full" /\ fb.pc = "done" /\ fb.secondary_called

\* C21: when the primary raises, get_full does not raise; it returns the
\* secondary's payload if that has no error and has data, and a network_error
\* payload if the secondary raises too.
C21_PrimaryRaises ==
    /\ fb.pc \in {"idle", "secondary", "done"}
    /\ (BothConsulted /\ fb.d = NetworkErrorPayload("primary")) =>
          /\ (fb.d2.error = NoneStr /\ HasData(fb.d2)) => fb.ret = fb.d2
          /\ fb.d2 = NetworkErrorPayload("secondary") =>
                /\ fb.ret.error = "network_error"
                /\ fb.ret.price = None
                /\ fb.ret.prev_close = None

\* Both providers raised and get_full has returned.
C21_Witness ==
    /\ BothConsulted
    /\ fb.d = NetworkErrorPayload("primary")
    /\ fb.d2 = NetworkErrorPayload("secondary")
    /\ fb.ret.error = "network_error"

\* C22: after both providers were consulted get_full returns the payload with
\* data if exactly one has data; else the payload without error if exactly
\* one has no error; else the secondary's.
C22_Resolution ==
    BothConsulted =>
        fb.ret =
          IF HasData(fb.d) # HasData(fb.d2)
          THEN (IF HasData(fb.d) THEN fb.d ELSE fb.d2)
          ELSE IF NoError(fb.d) # NoError(fb.d2)
          THEN (IF NoError(fb.d) THEN fb.d ELSE fb.d2)
          ELSE fb.d2

\* Neither payload has data and only the primary's has no error: the
\* primary's is returned.
C22_Witness ==
    /\ BothConsulted
    /\ ~HasData(fb.d) /\ ~HasData(fb.d2)
    /\ fb.d.error = NoneStr /\ fb.d2.error = "rate_limited"
    /\ fb.ret = fb.d

\* C23: get_price_prev_close consults the secondary in the cases in which
\* get_full does, and returns the price, the previous close and the error of
\* the payload that get_full returns for the same two results.
C23_PricePrevCloseMirrors ==
    fb.method = "get_price_prev_close" =>
        /\ fb.pc = "done" =>
              (fb.secondary_called <=> ~(NoError(fb.d) /\ HasData(fb.d)))
        /\ (fb.pc = "done" /\ fb.secondary_called) =>
              LET full == FallbackResult(fb.d, fb.d2)
              IN <<fb.ret.price, fb.ret.prev_close, fb.ret.error>>
                   = <<full.price, full.prev_close, full.error>>

\* C24: a payload returned by get_full of any provider with an error has no
\* value: price, prev_close, open, volume and the fundamentals are None.
C24_ErrorMeansNoValues ==
    pv.error # NoneStr =>
        /\ pv.price = None
        /\ pv.prev_close = None
        /\ pv.open = None
        /\ pv.volume = None
        /\ pv.market_cap = None

\* The snapshot row a fetch without error leaves for the payload q.
SuccessRow(row, q) ==
    /\ row.data
    /\ row.note = "Price check ok"
    /\ row.price = q.price

\* The snapshot row a fetch with the error err leaves.
FailureRow(row, err) ==
    /\ ~row.data
    /\ row.note = err
    /\ row.price = None

SymbolsOf(syms) == {syms[i] : i \in DOMAIN syms}

\* C26: a bulk run lists exactly the symbols that are in the watch group when
\* it reads the watchlist, in ticker order; the list does not change during
\* the run; each iteration writes the snapshot of the next symbol of the list
\* only and evaluates the rules of that symbol only; the run ends after the
\* last symbol of the list.
C26_WatchlistAtRead ==
    [][\A w \in Workers :
         /\ (wk[w].pc = "read" /\ wk'[w].pc = "loop") =>
               /\ SymbolsOf(wk'[w].syms) = {s \in Symbols : group[s] = "watch"}
               /\ \A i, j \in DOMAIN wk'[w].syms :
                    i < j => TickerBefore(wk'[w].syms[i], wk'[w].syms[j])
         /\ (wk[w].pc = "read" /\ wk'[w].pc = "final") =>
               {s \in Symbols : group[s] = "watch"} = {}
         /\ (wk[w].pc \in {"loop", "eval"}
               /\ wk'[w].pc \in {"loop", "eval", "final"}) =>
               /\ wk'[w].syms = wk[w].syms
               /\ wk'[w].idx \in {wk[w].idx, wk[w].idx + 1}
               /\ wk'[w].pc = "final" => wk'[w].idx = Len(wk[w].syms)
         /\ wk'[w].idx = wk[w].idx + 1 =>
               /\ wk'[w].idx \in DOMAIN wk[w].syms
               /\ \A s \in Symbols \ {wk[w].syms[wk'[w].idx]} :
                    snap'[s] = snap[s]
               /\ snap'[wk[w].syms[wk'[w].idx]].last_check_epoch = now
         /\ (ev'[w] # ev[w] /\ ev'[w].pc # "idle") =>
               \A i \in DOMAIN ev'[w].rules :
                  alerts[ev'[w].rules[i]].symbol_id = wk[w].syms[wk'[w].idx]]_vars

\* A run that read the watchlist while symbol 1 was archived has ended:
\* symbol 1, back in the watch group, has no snapshot, symbol 2 has one.
C26_Witness ==
    /\ wk[1].pc = "final"
    /\ wk[1].syms = <<2>>
    /\ wk[1].idx = 1
    /\ group[1] = "watch"
    /\ snap[1] = NoSnap
    /\ snap[2].last_check_epoch # Null

\* C27: an on-demand update of a symbol handled while the phase is running
\* writes the snapshot of its symbol and starts the evaluation of its rules
\* when the fetch has no error, and leaves every field of the run status as
\* it is.
C27_OnDemandLeavesRunStatus ==
    [][\A s \in Symbols :
         (ApiUpdateSymbol(s) /\ rs.phase = "running") =>
             /\ snap'[s].last_check_epoch = now
             /\ (snap'[s].data /\ AlertIdsOf(s) # <<>>) => ev'[Req].pc = "rule"
             /\ rs' = rs]_vars

\* C28: after delete_symbol(s) no rule of s remains, s has no snapshot, and
\* no rule that ever belonged to s, deleted by an earlier save or by this
\* call, has a suppression record.
C28_DeleteLeavesNoOrphans ==
    [][\A s \in Symbols :
         DeleteSymbol(s) =>
             /\ AlertIdsOf(s)' = <<>>
             /\ snap'[s] = NoSnap
             /\ \A a \in DOMAIN alerts' :
                  alerts'[a].symbol_id = s => alert_state'[a] = NoAlertState]_vars

\* C29: a call of the notifier reports a delivery if and only if a webhook
\* is configured and the POST returned a 2xx status; without a webhook
\* nothing is posted; whatever the POST did, no exception reaches the
\* evaluator: the rule is not logged as failed, the loop goes on and the
\* count of sent alerts grows by the deliveries only.
C29_NotifierReportsAndSwallows ==
    [][sends' # sends =>
         LET m == sends'[Len(sends')]
             e == m.by
         IN /\ m.delivered <=> (env.webhook /\ ev'[e].resp = "2xx")
            /\ ~env.webhook => ev'[e].resp = "none"
            /\ ev'[e].raised = ev[e].raised
            /\ ev'[e].pc \in {"rule", "return"}
            /\ ev'[e].sent = ev[e].sent + (IF m.delivered THEN 1 ELSE 0)]_vars

\* The POST for the last rule of an evaluation got a non-2xx status: it was
\* not delivered, no rule was logged as failed and nothing counts as sent.
C29_Witness ==
    /\ env.webhook
    /\ ev[Req].pc = "return"
    /\ ev[Req].resp = "non2xx"
    /\ sends # <<>>
    /\ ~sends[Len(sends)].delivered
    /\ ev[Req].raised = {}
    /\ ev[Req].sent = 0

\* The symbol whose rules the evaluation c runs over.
SymbolOf(c) == alerts[c.rules[1]].symbol_id

\* C30: an evaluation starts in the step that writes its symbol's snapshot
\* from a payload without error; a step that writes the snapshot of a failed
\* fetch starts no evaluation, sends nothing and writes no suppression
\* state; every notification and every write of suppression state comes from
\* an evaluation whose symbol has a snapshot.
C30_SnapshotThenEvaluate ==
    [][/\ \A e \in Evaluators :
            (ev[e].pc = "idle" /\ ev'[e].pc # "idle") =>
                /\ SuccessRow(snap'[SymbolOf(ev'[e])], ev'[e].quote)
                /\ snap'[SymbolOf(ev'[e])].last_check_epoch = now
       /\ \A w \in Workers :
            (/\ wk'[w].idx = wk[w].idx + 1
             /\ wk'[w].outs[Len(wk'[w].outs)] # "ok") =>
                /\ ~snap'[wk[w].syms[wk'[w].idx]].data
                /\ ev' = ev /\ sends' = sends /\ alert_state' = alert_state
       /\ \A s \in Symbols :
            (snap'[s] # snap[s] /\ ~snap'[s].data) =>
                ev' = ev /\ sends' = sends /\ alert_state' = alert_state
       /\ (sends' # sends \/ alert_state' # alert_state) =>
            \E e \in Evaluators :
               /\ ev[e].pc = "send"
               /\ ev'[e] # ev[e]
               /\ snap[SymbolOf(ev[e])].last_check_epoch # Null]_vars

\* A bulk run has delivered an alert of symbol 1 and the on-demand update of
\* the symbol then failed: the snapshot is that of the failure and nothing
\* more was sent.
C30_Witness ==
    /\ Len(sends) = 1
    /\ sends[1].by = 1 /\ sends[1].delivered
    /\ ev[Req].pc = "idle"
    /\ FailureRow(snap[1], "rate_limited")

\* C31: a status read while the phase is running and the age of the run is at
\* most the timeout, the age equal to the timeout included, leaves the run
\* status as it is.
C31_RecoveryOnlyBeyondTimeout ==
    [][(/\ StatusRead
        /\ rs.phase = "running"
        /\ rs.started_epoch # Null
        /\ now - rs.started_epoch <= RUN_TIMEOUT_SECONDS) => rs' = rs]_vars

\* C32: with POST /api/update_all as the only trigger, at most one thread
\* executes check_alerts at any moment: of two calls that arrive while no run
\* is in progress one is refused.
C32_OneOfTwoCallsStarts ==
    Cardinality({w \in Workers : wk[w].pc # "idle"}) <= 1

\* C33: when a run that is in flight has been reclassified, by the timeout
\* recovery or by a manual reset, its completion leaves the phase, the status
\* code, the message and the counts of the run status as the recovery wrote
\* them.
C33_ReclassifiedRunIsDiscarded ==
    [][\A w \in Workers :
         (/\ wk[w].pc = "final" /\ wk'[w].pc = "idle"
          /\ rs.phase = "finished"
          /\ rs.status_code \in {"interrupted_timeout", "manual_reset"}) =>
             /\ rs'.phase = rs.phase
             /\ rs'.status_code = rs.status_code
             /\ rs'.message = rs.message
             /\ rs'.ok_count = rs.ok_count
             /\ rs'.err_count = rs.err_count]_vars

\* C34: while the phase is idle or finished no thread is between the read of
\* the watchlist and the end of the loop of check_alerts.
C34_PhaseCoversTheRun ==
    rs.phase \in {"idle", "finished"} =>
        \A w \in Workers : wk[w].pc \notin {"read", "loop", "eval"}

\* C35: a run that has read a watchlist and finalizes with the status code
\* ok has fetched every symbol of that list without error and has written
\* its snapshot: ok_count is the size of the list.
C35_OkMeansAllFetched ==
    [][\A w \in Workers :
         (/\ wk[w].pc = "final" /\ wk'[w].pc = "idle"
          /\ wk[w].syms # <<>>
          /\ rs'.status_code = "ok") =>
             /\ rs'.ok_count = Len(wk[w].syms)
             /\ \A i \in DOMAIN wk[w].syms : snap[wk[w].syms[i]].data]_vars

\* C36: while the phase is running the status code is null and both counts
\* are 0.
C36_StartClearsOutcome ==
    rs.phase = "running" =>
        /\ rs.status_code = NoneStr
        /\ rs.ok_count = 0
        /\ rs.err_count = 0

\* C37: a run that found the watchlist empty leaves phase finished, status
\* code ok, both counts 0 and the message "No symbols in watchlist".
C37_EmptyWatchlistMessage ==
    [][\A w \in Workers :
         (/\ wk[w].pc = "final" /\ wk'[w].pc = "idle"
          /\ wk[w].syms = <<>> /\ ~wk[w].fatal) =>
             /\ rs'.phase = "finished"
             /\ rs'.status_code = "ok"
             /\ rs'.ok_count = 0 /\ rs'.err_count = 0
             /\ rs'.message = NoSymbolsMsg]_vars

\* C38: every suppression record belongs to a rule that exists.
C38_NoOrphanSuppression ==
    \A a \in DOMAIN alert_state :
        alert_state[a] # NoAlertState => alerts[a].type # "deleted"

\* C39: a rule id is never handed out twice: a row of the alerts table stays
\* the rule it was or becomes a deleted one, a rule that is created has no
\* suppression record, and the first trigger of a rule that was never
\* delivered and whose condition holds reaches the notifier.
C39_NewRuleStartsFresh ==
    [][/\ \A a \in DOMAIN alerts :
            /\ a \in DOMAIN alerts'
            /\ \/ alerts'[a] = alerts[a]
               \/ alerts'[a] = [alerts[a] EXCEPT !.type = "deleted"]
       /\ \A a \in DOMAIN alerts' \ DOMAIN alerts :
            alert_state'[a] = NoAlertState
       /\ \A e \in Evaluators :
            (/\ ev[e].pc = "rule"
             /\ ev'[e] # ev[e]
             /\ \A i \in DOMAIN sends :
                   sends[i].alert_id = CurrentRule(e) => ~sends[i].delivered
             /\ ShouldNotify(alerts[CurrentRule(e)], ev[e].quote, NoAlertState,
                             ev[e].now_epoch, today)) =>
                ev'[e].pc = "send"]_vars

\* A rule that was delivered and then replaced, and a rule created after it
\* that was delivered within the cooldown of the first.
C39_Witness ==
    \E a, b \in DOMAIN alerts :
        /\ a < b
        /\ alerts[a].type = "deleted"
        /\ alerts[b].type = "above"
        /\ alert_state[a].last_sent_epoch # Null
        /\ alert_state[b].last_sent_epoch # Null
        /\ alert_state[b].last_sent_epoch - alert_state[a].last_sent_epoch
              < COOLDOWN_SECONDS

\* C40: every snapshot belongs to a symbol that exists.
C40_NoOrphanSnapshot ==
    \A s \in Symbols : group[s] = "deleted" => snap[s] = NoSnap

====
